---- MODULE Spec2Model ----
(***************************************************************************)
(* Bindless mesh pipeline of bevy-hikari (src/mesh.rs): mesh extraction,   *)
(* BVH flattening, the mesh registry, the asset-event change tracker and   *)
(* the buffer packer / uploader, as run once per frame by the Extract and  *)
(* Prepare render stages.                                                  *)
(***************************************************************************)
EXTENDS Integers, Sequences, FiniteSets, TLC

(***************************************************************************)
(* Bounds                                                                  *)
(***************************************************************************)
\* number of distinct mesh handles (Handle<Mesh>) in the scene
MaxHandle == 2
\* longest batch of AssetEvent<Mesh> read in one Extract stage
MaxBatch == 3

Handles == 1..MaxHandle

\* most vertices of a mesh without an index list passed to extract_mesh on its own
MaxVerts == 6
\* longest index list of a mesh passed to extract_mesh on its own
MaxIndices == 6
\* vertex count of those indexed meshes; their index values range over
\* 0..MaxIndex, so that MaxIndex itself names no vertex
MaxIndex == 3

(***************************************************************************)
(* Small helpers                                                           *)
(***************************************************************************)
Min2(a, b) == IF a <= b THEN a ELSE b
Max2(a, b) == IF a >= b THEN a ELSE b

\* `x as u32`: the low 32 bits of x, taken 16 bits at a time (TLC integers are
\* 32-bit signed, so 2^32 itself cannot be written)
U32(x) == ((x \div 65536) % 65536) * 65536 + (x % 65536)

\* u32::MAX, the "no entry" / "no face" marker written by the flattener; held as
\* the signed integer of the same bit pattern
U32Max == -1

\* Option<T>
Some(x) == [some |-> TRUE, value |-> x]
None == [some |-> FALSE]

RECURSIVE SeqSum(_)
SeqSum(s) == IF s = <<>> THEN 0 ELSE Head(s) + SeqSum(Tail(s))

RECURSIVE Flatten(_)
Flatten(ss) == IF ss = <<>> THEN <<>> ELSE Head(ss) \o Flatten(Tail(ss))

Range(s) == {s[i] : i \in 1..Len(s)}

\* variant: the enumeration yields its first element a second time at the end
PermsRepeatingFirst(S) ==
    {IF p = <<>> THEN p ELSE Append(p, p[1]) :
        p \in {q \in [1..Cardinality(S) -> S] :
                   \A i, j \in 1..Cardinality(S) : q[i] = q[j] => i = j}}

\* all orders in which the elements of a finite set can be enumerated
Perms(S) ==
    {p \in [1..Cardinality(S) -> S] : \A i, j \in 1..Cardinality(S) : p[i] = p[j] => i = j}

\* ascending enumeration of a set of handles (BTreeMap iteration order)
RECURSIVE SortedSeq(_)
SortedSeq(S) ==
    IF S = {} THEN <<>>
    ELSE LET m == CHOOSE x \in S : \A y \in S : x <= y
         IN <<m>> \o SortedSeq(S \ {m})

(***************************************************************************)
(* Mesh descriptions (bevy Mesh as read by extract_mesh)                   *)
(*   an attribute is None or Some([ty, data]); indices are None or Some    *)
(*   sequence of 0-based vertex indices                                    *)
(***************************************************************************)
Float3(data) == Some([ty |-> "Float32x3", data |-> data])
Float2(data) == Some([ty |-> "Float32x2", data |-> data])

\* variant: the data of an attribute of any element type is taken
as_float3_any(attr) ==
    IF attr.some THEN Some(attr.value.data) ELSE None

\* VertexAttributeValues::as_float3: Some(data) only for Float32x3
as_float3(attr) ==
    IF attr.some /\ attr.value.ty = "Float32x3" THEN Some(attr.value.data) ELSE None

\* the match of lines 143-146: Some(data) only for Float32x2
as_float2(attr) ==
    IF attr.some /\ attr.value.ty = "Float32x2" THEN Some(attr.value.data) ELSE None

GpuVertex(p, n, uv) == [position |-> p, normal |-> n, uv |-> uv]

GpuPrimitive(vs, is, ni) == [vertices |-> vs, indices |-> is, node_index |-> ni]

GpuNode(mn, mx, entry, exit, face) ==
    [min |-> mn, max |-> mx, entry_index |-> entry, exit_index |-> exit, face_index |-> face]

BindlessMesh(vs, ps, ns) == [vertices |-> vs, primitives |-> ps, nodes |-> ns]

GpuBindlessMesh(vo, po, no) ==
    [vertex_offset |-> vo, primitive_offset |-> po, node_offset |-> no]

(***************************************************************************)
(* extract_mesh, part 1: attributes, vertices, indices, faces              *)
(***************************************************************************)
\* itertools::multizip stops at the shortest of the three attribute arrays
Vertices(positions, normals, uvs) ==
    [i \in 1..Min2(Len(positions), Min2(Len(normals), Len(uvs))) |->
        GpuVertex(positions[i], normals[i], uvs[i])]

\* variant: the default index list counts from one
IndicesOneBased(mesh, vertices) ==
    IF mesh.indices.some THEN mesh.indices.value
    ELSE [i \in 1..Len(vertices) |-> i]

\* explicit indices, or 0..vertices.len() when the mesh has none
Indices(mesh, vertices) ==
    IF mesh.indices.some THEN mesh.indices.value
    ELSE [i \in 1..Len(vertices) |-> i - 1]

\* `vertices[id]` is a bounds-checked Vec index: an id >= len panics
InRange(ids, vertices) == \A k \in 1..Len(ids) : ids[k] < Len(vertices)

\* variant: the stored indices are positions counted from one
FaceOneBased(ids, vertices) ==
    GpuPrimitive([k \in 1..3 |-> vertices[ids[k] + 1].position],
                 [k \in 1..3 |-> U32(ids[k] + 1)],
                 0)

Face(ids, vertices) ==
    GpuPrimitive([k \in 1..3 |-> vertices[ids[k] + 1].position],
                 [k \in 1..3 |-> U32(ids[k])],
                 0)

\* variant: a trailing chunk of fewer than three indices is dropped
RECURSIVE ListFacesDropTail(_, _, _)
ListFacesDropTail(indices, vertices, acc) ==
    IF Len(indices) < 3 THEN [kind |-> "Ok", faces |-> acc]
    ELSE LET ids == SubSeq(indices, 1, 3)
         IN IF ~InRange(ids, vertices) THEN [kind |-> "Panic"]
            ELSE ListFacesDropTail(SubSeq(indices, 4, Len(indices)), vertices,
                                   Append(acc, Face(ids, vertices)))

\* TriangleList: chunks(3), next_tuple() on each chunk.
\* Result: [kind |-> "Ok", faces], [kind |-> "Err"] or [kind |-> "Panic"],
\* whichever the loop meets first.
RECURSIVE ListFaces(_, _, _)
ListFaces(indices, vertices, acc) ==
    IF indices = <<>> THEN [kind |-> "Ok", faces |-> acc]
    ELSE IF Len(indices) < 3 THEN [kind |-> "Err"]
    ELSE LET ids == SubSeq(indices, 1, 3)
         IN IF ~InRange(ids, vertices) THEN [kind |-> "Panic"]
            ELSE ListFaces(SubSeq(indices, 4, Len(indices)), vertices,
                           Append(acc, Face(ids, vertices)))

\* variant: every window keeps (v0, v1, v2)
RECURSIVE StripFacesNoSwap(_, _, _, _)
StripFacesNoSwap(indices, vertices, id, acc) ==
    IF id + 3 > Len(indices) THEN [kind |-> "Ok", faces |-> acc]
    ELSE LET ids == SubSeq(indices, id + 1, id + 3)
         IN IF ~InRange(ids, vertices) THEN [kind |-> "Panic"]
            ELSE StripFacesNoSwap(indices, vertices, id + 1,
                                  Append(acc, Face(ids, vertices)))

\* TriangleStrip: tuple_windows().enumerate(), odd windows swap v0 and v1
RECURSIVE StripFaces(_, _, _, _)
StripFaces(indices, vertices, id, acc) ==
    IF id + 3 > Len(indices) THEN [kind |-> "Ok", faces |-> acc]
    ELSE LET v0 == indices[id + 1]
             v1 == indices[id + 2]
             v2 == indices[id + 3]
             ids == IF id % 2 = 0 THEN <<v0, v1, v2>> ELSE <<v1, v0, v2>>
         IN IF ~InRange(ids, vertices) THEN [kind |-> "Panic"]
            ELSE StripFaces(indices, vertices, id + 1, Append(acc, Face(ids, vertices)))

\* variant: every topology but the strip is read as a triangle list
FacesAnyTopology(mesh, indices, vertices) ==
    IF mesh.topology = "TriangleStrip" THEN StripFaces(indices, vertices, 0, <<>>)
    ELSE ListFaces(indices, vertices, <<>>)

Faces(mesh, indices, vertices) ==
    CASE mesh.topology = "TriangleList" -> ListFaces(indices, vertices, <<>>)
      [] mesh.topology = "TriangleStrip" -> StripFaces(indices, vertices, 0, <<>>)
      [] OTHER -> [kind |-> "Err"]

(***************************************************************************)
(* extract_mesh, part 2: BVH::build(&mut faces) and bvh.flatten_custom     *)
(* (bvh crate: one leaf per shape, SAH over six buckets along the largest  *)
(* axis of the centroid bounds).  Coordinates are integers; centres are    *)
(* kept doubled so that they stay integers.                                *)
(***************************************************************************)
\* stands for f32::INFINITY in AABB::empty(): larger than any coordinate
Infinity == 1000000

AABBEmpty == [min |-> <<Infinity, Infinity, Infinity>>,
              max |-> <<-Infinity, -Infinity, -Infinity>>]

\* AABB::grow(point)
Grow(box, p) == [min |-> [k \in 1..3 |-> Min2(box.min[k], p[k])],
                 max |-> [k \in 1..3 |-> Max2(box.max[k], p[k])]]

\* AABB::join(other)
Join(a, b) == [min |-> [k \in 1..3 |-> Min2(a.min[k], b.min[k])],
               max |-> [k \in 1..3 |-> Max2(a.max[k], b.max[k])]]

\* impl Bounded for GpuPrimitive
aabb(prim) == Grow(Grow(Grow(AABBEmpty, prim.vertices[1]), prim.vertices[2]), prim.vertices[3])

\* twice AABB::center()
Center2(box) == [k \in 1..3 |-> box.min[k] + box.max[k]]

Size(box) == [k \in 1..3 |-> box.max[k] - box.min[k]]

SurfaceArea(box) ==
    LET s == Size(box) IN 2 * (s[1] * s[2] + s[1] * s[3] + s[2] * s[3])

\* AABB::largest_axis
LargestAxis(box) ==
    LET s == Size(box)
    IN IF s[1] > s[2] /\ s[1] > s[3] THEN 1 ELSE IF s[2] > s[3] THEN 2 ELSE 3

RECURSIVE JointAABB(_, _)
JointAABB(idxs, shapes) ==
    IF idxs = <<>> THEN AABBEmpty
    ELSE Join(aabb(shapes[Head(idxs) + 1]), JointAABB(Tail(idxs), shapes))

RECURSIVE CentroidBounds(_, _)
CentroidBounds(idxs, shapes) ==
    IF idxs = <<>> THEN AABBEmpty
    ELSE Grow(CentroidBounds(Tail(idxs), shapes), Center2(aabb(shapes[Head(idxs) + 1])))

NumBuckets == 6

\* (relative position in [0,1]) * (NUM_BUCKETS - 0.01), truncated
BucketNum(shape, axis, cb) ==
    ((Center2(aabb(shape))[axis] - cb.min[axis]) * (NumBuckets * 100 - 1))
        \div (100 * (cb.max[axis] - cb.min[axis]))

\* the indices of idxs assigned to buckets lo..hi, bucket by bucket, each in input order
RECURSIVE BucketRange(_, _, _, _, _, _)
BucketRange(idxs, shapes, axis, cb, lo, hi) ==
    IF lo > hi THEN <<>>
    ELSE SelectSeq(idxs, LAMBDA i : BucketNum(shapes[i + 1], axis, cb) = lo)
         \o BucketRange(idxs, shapes, axis, cb, lo + 1, hi)

\* numerator of the SAH cost of splitting after bucket i
SplitCost(idxs, shapes, axis, cb, i) ==
    LET l == BucketRange(idxs, shapes, axis, cb, 0, i)
        r == BucketRange(idxs, shapes, axis, cb, i + 1, NumBuckets - 1)
    IN Len(l) * SurfaceArea(JointAABB(l, shapes)) + Len(r) * SurfaceArea(JointAABB(r, shapes))

\* first bucket of least cost ("cost < min_cost" keeps the earliest minimum)
MinBucket(idxs, shapes, axis, cb) ==
    CHOOSE i \in 0..(NumBuckets - 2) :
        \A j \in 0..(NumBuckets - 2) :
            LET ci == SplitCost(idxs, shapes, axis, cb, i)
                cj == SplitCost(idxs, shapes, axis, cb, j)
            IN ci < cj \/ (ci = cj /\ i <= j)

\* BVHNode::build: the tree over the shapes idxs, its root stored at slot node_index
\* of the BVH's node vector (children follow their parent, left subtree first)
RECURSIVE BuildNode(_, _, _)
BuildNode(shapes, idxs, node_index) ==
    IF Len(idxs) = 1
    THEN [leaf |-> TRUE, index |-> node_index, shape_index |-> idxs[1]]
    ELSE LET cb == CentroidBounds(idxs, shapes)
             axis == LargestAxis(cb)
             even == cb.max[axis] - cb.min[axis] <= 0
             \* a cost of x/0 is never below f32::INFINITY: bucket 0, empty child boxes
             flat == SurfaceArea(JointAABB(idxs, shapes)) = 0
             mb == IF flat THEN 0 ELSE MinBucket(idxs, shapes, axis, cb)
             l == IF even THEN SubSeq(idxs, 1, Len(idxs) \div 2)
                  ELSE BucketRange(idxs, shapes, axis, cb, 0, mb)
             r == IF even THEN SubSeq(idxs, Len(idxs) \div 2 + 1, Len(idxs))
                  ELSE BucketRange(idxs, shapes, axis, cb, mb + 1, NumBuckets - 1)
             boxed == even \/ ~flat
         IN [leaf |-> FALSE, index |-> node_index,
             child_l_aabb |-> IF boxed THEN JointAABB(l, shapes) ELSE AABBEmpty,
             child_r_aabb |-> IF boxed THEN JointAABB(r, shapes) ELSE AABBEmpty,
             child_l |-> BuildNode(shapes, l, node_index + 1),
             child_r |-> BuildNode(shapes, r, node_index + 2 * Len(l))]

\* slot of the leaf that holds shape i (what set_bh_node_index is called with)
RECURSIVE LeafIndex(_, _)
LeafIndex(node, i) ==
    IF node.leaf THEN (IF node.shape_index = i THEN node.index ELSE -1)
    ELSE Max2(LeafIndex(node.child_l, i), LeafIndex(node.child_r, i))

\* impl BHShape for GpuPrimitive: set_bh_node_index stores `index as u32`
set_bh_node_index(prim, index) == [prim EXCEPT !.node_index = U32(index)]

\* BVHNode::flatten_custom / create_flat_branch with the closure of lines 205-211
RECURSIVE FlattenNode(_, _)
FlatBranch(node, this_aabb, next_free) ==
    LET sub == FlattenNode(node, next_free + 1)
    IN <<GpuNode(this_aabb.min, this_aabb.max, U32(next_free + 1),
                 U32(next_free + 1 + Len(sub)), U32Max)>> \o sub

FlattenNode(node, next_free) ==
    IF node.leaf
    THEN <<GpuNode(AABBEmpty.min, AABBEmpty.max, U32Max, U32(next_free + 1),
                   U32(node.shape_index))>>
    ELSE LET left == FlatBranch(node.child_l, node.child_l_aabb, next_free)
         IN left \o FlatBranch(node.child_r, node.child_r_aabb, next_free + Len(left))

(***************************************************************************)
(* extract_mesh                                                            *)
(***************************************************************************)
\* Result<BindlessMesh, BindlessMeshError>, or a panic of the call
extract_mesh(mesh) ==
    LET positions == as_float3(mesh.positions)
        normals == as_float3(mesh.normals)
        uvs == as_float2(mesh.uvs)
    IN IF ~positions.some THEN [kind |-> "Err", err |-> "MissAttributePosition"]
       ELSE IF ~normals.some THEN [kind |-> "Err", err |-> "MissAttributeNormal"]
       ELSE IF ~uvs.some THEN [kind |-> "Err", err |-> "MissAttributeUV"]
       ELSE LET vertices == Vertices(positions.value, normals.value, uvs.value)
                indices == Indices(mesh, vertices)
                faces == Faces(mesh, indices, vertices)
            IN IF faces.kind = "Err"
               THEN [kind |-> "Err", err |-> "IncompatiblePrimitiveTopology"]
               ELSE IF faces.kind = "Panic" \/ faces.faces = <<>>
               THEN [kind |-> "Panic"]
               ELSE LET n == Len(faces.faces)
                        root == BuildNode(faces.faces, [i \in 1..n |-> i - 1], 0)
                        primitives == [i \in 1..n |->
                            set_bh_node_index(faces.faces[i], LeafIndex(root, i - 1))]
                    IN [kind |-> "Ok",
                        mesh |-> BindlessMesh(vertices, primitives, FlattenNode(root, 0))]

(***************************************************************************)
(* Mesh assets the main world can hold (Assets<Mesh>)                      *)
(***************************************************************************)
Normal == <<0, 0, 1>>

\* unit quad, two triangles, explicit indices
QuadMesh ==
    [positions |-> Float3(<< <<0, 0, 0>>, <<1, 0, 0>>, <<1, 1, 0>>, <<0, 1, 0>> >>),
     normals |-> Float3(<<Normal, Normal, Normal, Normal>>),
     uvs |-> Float2(<< <<0, 0>>, <<1, 0>>, <<1, 1>>, <<0, 1>> >>),
     indices |-> Some(<<0, 1, 2, 0, 2, 3>>),
     topology |-> "TriangleList"]

\* one triangle as a strip, no index list
StripMesh ==
    [positions |-> Float3(<< <<2, 0, 0>>, <<4, 0, 0>>, <<2, 3, 1>> >>),
     normals |-> Float3(<<Normal, Normal, Normal>>),
     uvs |-> Float2(<< <<0, 0>>, <<1, 0>>, <<0, 1>> >>),
     indices |-> None,
     topology |-> "TriangleStrip"]

\* the quad without its normals
NoNormalMesh == [QuadMesh EXCEPT !.normals = None]

\* the quad with an index past its last vertex
OutOfRangeMesh == [QuadMesh EXCEPT !.indices = Some(<<0, 1, 2, 0, 2, 4>>)]

\* the quad's vertices and indices as a list of lines
LineMesh == [QuadMesh EXCEPT !.topology = "LineList"]

AssetMeshes == {QuadMesh, StripMesh, NoNormalMesh, OutOfRangeMesh, LineMesh}

\* what Assets::get can return: None for a handle whose asset is gone
AssetLookups == {Some(mesh) : mesh \in AssetMeshes} \cup {None}

(***************************************************************************)
(* State                                                                   *)
(***************************************************************************)
VARIABLES
    phase,             \* render stage to run next: "Extract", "Prepare", "Cleanup";
                       \* "Failed" after a panic
    events,            \* the AssetEvent<Mesh> batch read by the last Extract stage
    assets,            \* what Assets<Mesh>::get returned for the handles looked up
    changed_assets,    \* extract_bindless_meshes: changed_assets after the event loop
    extracted,         \* ExtractedBindlessMeshes.extracted
    removed,           \* ExtractedBindlessMeshes.removed
    meshes,            \* BindlessMeshes (BTreeMap<Handle, BindlessMesh>)
    render_meshes,     \* RenderBindlessMeshes (HashMap<Handle, GpuBindlessMesh>)
    vertex_buffer,     \* BindlessMeshMeta.vertex_buffer data
    primitive_buffer,  \* BindlessMeshMeta.primitive_buffer data
    node_buffer,       \* BindlessMeshMeta.node_buffer data
    device,            \* contents of the three GPU buffers
    dirty,             \* prepare_bindless_meshes: dirty, as the last Prepare stage left it
    uploaded,          \* number of write_buffer calls the last Prepare stage completed
    diagnostics        \* errors the last Extract stage reported to its caller or the log

\* one call of extract_mesh on its own
VARIABLES
    input,             \* the mesh description passed to extract_mesh
    result             \* None before the call, Some(what the call returned) after it

harness == <<input, result>>

\* what the registry has held (history, read by no handler)
VARIABLES
    origin,            \* handle -> the mesh description its registry entry was extracted from
    evicted            \* handle -> the entry last evicted under it, and that entry's origin

history == <<origin, evicted>>

pipeline == <<phase, events, assets, changed_assets, extracted, removed, meshes,
              render_meshes, vertex_buffer, primitive_buffer, node_buffer, device,
              dirty, uploaded, diagnostics>>

vars == <<phase, events, assets, changed_assets, extracted, removed, meshes,
          render_meshes, vertex_buffer, primitive_buffer, node_buffer, device,
          dirty, uploaded, diagnostics, input, result, origin, evicted>>

\* maps as functions over the set of their keys
EmptyMap == [h \in {} |-> 0]

Insert(map, key, value) ==
    [h \in DOMAIN map \cup {key} |-> IF h = key THEN value ELSE map[h]]

\* variant: the entries under smaller keys go with it
RemoveUpTo(map, key) == [h \in {g \in DOMAIN map : g > key} |-> map[h]]

Remove(map, key) == [h \in DOMAIN map \ {key} |-> map[h]]

PipelineInit ==
    /\ phase = "Extract"
    /\ events = <<>>
    /\ assets = EmptyMap
    /\ changed_assets = {}
    /\ extracted = <<>>
    /\ removed = <<>>
    /\ meshes = EmptyMap
    /\ render_meshes = EmptyMap
    /\ vertex_buffer = <<>>
    /\ primitive_buffer = <<>>
    /\ node_buffer = <<>>
    /\ device = [vertex |-> <<>>, primitive |-> <<>>, node |-> <<>>]
    /\ dirty = FALSE
    /\ uploaded = 0
    /\ diagnostics = {}

Init ==
    /\ PipelineInit
    /\ input = QuadMesh
    /\ result = None
    /\ origin = EmptyMap
    /\ evicted = EmptyMap

(***************************************************************************)
(* Extract stage: extract_bindless_meshes                                  *)
(***************************************************************************)
Created(h) == [kind |-> "Created", handle |-> h]
Modified(h) == [kind |-> "Modified", handle |-> h]
Removed(h) == [kind |-> "Removed", handle |-> h]

AssetEvents == {Created(h) : h \in Handles} \cup {Modified(h) : h \in Handles}
                   \cup {Removed(h) : h \in Handles}

Batches == UNION {[1..n -> AssetEvents] : n \in 0..MaxBatch}

\* variant: a Removed event is queued for eviction but stays in changed_assets
RECURSIVE TrackEventsKeepChanged(_, _, _)
TrackEventsKeepChanged(batch, changed, rem) ==
    IF batch = <<>> THEN [changed |-> changed, removed |-> rem]
    ELSE LET event == Head(batch)
         IN IF event.kind \in {"Created", "Modified"}
            THEN TrackEventsKeepChanged(Tail(batch), changed \cup {event.handle}, rem)
            ELSE TrackEventsKeepChanged(Tail(batch), changed, Append(rem, event.handle))

\* the event loop, lines 239-249: the state of (changed_assets, removed) after batch
RECURSIVE TrackEvents(_, _, _)
TrackEvents(batch, changed, rem) ==
    IF batch = <<>> THEN [changed |-> changed, removed |-> rem]
    ELSE LET event == Head(batch)
         IN IF event.kind \in {"Created", "Modified"}
            THEN TrackEvents(Tail(batch), changed \cup {event.handle}, rem)
            ELSE TrackEvents(Tail(batch), changed \ {event.handle},
                             Append(rem, event.handle))

\* variant: unwrap_or_default() in place of ok(), an error yields an empty mesh
TryExtractOrDefault(asset) ==
    IF ~asset.some THEN [kind |-> "Err", err |-> "NoAsset"]
    ELSE IF extract_mesh(asset.value).kind = "Err"
    THEN [kind |-> "Ok", mesh |-> BindlessMesh(<<>>, <<>>, <<>>)]
    ELSE extract_mesh(asset.value)

\* variant: the indices of the primitives are shifted to where the mesh would
\* start in the global vertex buffer as it stands
TryExtractGlobalIndices(asset) ==
    IF ~asset.some THEN [kind |-> "Err", err |-> "NoAsset"]
    ELSE LET res == extract_mesh(asset.value)
         IN IF res.kind # "Ok" THEN res
            ELSE [kind |-> "Ok",
                  mesh |-> [res.mesh EXCEPT !.primitives =
                      [i \in 1..Len(res.mesh.primitives) |->
                          [res.mesh.primitives[i] EXCEPT !.indices =
                              [k \in 1..3 |->
                                  U32(res.mesh.primitives[i].indices[k]
                                      + Len(vertex_buffer))]]]]]

\* assets.get(&handle).and_then(|mesh| extract_mesh(mesh)...)
TryExtract(asset) ==
    IF asset.some THEN extract_mesh(asset.value) ELSE [kind |-> "Err", err |-> "NoAsset"]

\* the drain loop, lines 252-256, over the handles in the order the set yields them
RECURSIVE ExtractAll(_, _)
ExtractAll(order, lookup) ==
    IF order = <<>> THEN <<>>
    ELSE LET res == TryExtract(lookup[Head(order)])
             rest == ExtractAll(Tail(order), lookup)
         IN IF res.kind = "Ok" THEN <<[handle |-> Head(order), mesh |-> res.mesh]>> \o rest
            ELSE rest

\* a panic inside extract_mesh unwinds the system before line 258 replaces the
\* ExtractedBindlessMeshes resource
ExtractBindlessMeshes ==
    /\ phase = "Extract"
    /\ \E batch \in Batches :
         LET tracked == TrackEvents(batch, {}, <<>>)
         IN \E lookup \in [tracked.changed -> AssetLookups] :
              \E order \in Perms(tracked.changed) :
                LET panics == \E h \in tracked.changed : TryExtract(lookup[h]).kind = "Panic"
                IN /\ events' = batch
                   /\ assets' = lookup
                   /\ changed_assets' = tracked.changed
                   /\ extracted' = IF panics THEN extracted ELSE ExtractAll(order, lookup)
                   /\ removed' = IF panics THEN removed ELSE tracked.removed
                   /\ phase' = IF panics THEN "Failed" ELSE "Prepare"
    \* ok() at line 253 drops the BindlessMeshError: nothing is logged or returned
    /\ diagnostics' = {}
    /\ UNCHANGED <<meshes, render_meshes, vertex_buffer, primitive_buffer, node_buffer,
                   device, dirty, uploaded, harness>>

(***************************************************************************)
(* Prepare stage: prepare_bindless_meshes                                  *)
(***************************************************************************)
\* lines 271-274
RECURSIVE InsertAll(_, _)
InsertAll(map, list) ==
    IF list = <<>> THEN map
    ELSE InsertAll(Insert(map, Head(list).handle, Head(list).mesh), Tail(list))

\* lines 276-279
RECURSIVE RemoveAll(_, _)
RemoveAll(map, list) ==
    IF list = <<>> THEN map ELSE RemoveAll(Remove(map, Head(list)), Tail(list))

\* variant: the loops iterate over the lists without emptying them
NotDrained(list) == list

\* drain(..) of lines 271 and 276: the list is empty once the loop is over
Drained(list) == <<>>

\* variant: the eviction loop does not set dirty
DirtyIgnoresRemoved(ext, rem) == ext # <<>>

\* variant: the insertion loop does not set dirty
DirtyIgnoresExtracted(ext, rem) == rem # <<>>

\* lines 269-279: dirty is set by every pass through either drain loop
Dirty(ext, rem) == ext # <<>> \/ rem # <<>>

\* variant: each mesh is put in front of what the buffers already hold
RECURSIVE RepackInFront(_, _, _)
RepackInFront(map, order, acc) ==
    IF order = <<>> THEN acc
    ELSE LET handle == Head(order)
             mesh == map[handle]
             offsets == GpuBindlessMesh(U32(Len(acc.vertex)), U32(Len(acc.primitive)),
                                        U32(Len(acc.node)))
         IN RepackInFront(map, Tail(order),
                          [vertex |-> mesh.vertices \o acc.vertex,
                           primitive |-> mesh.primitives \o acc.primitive,
                           node |-> mesh.nodes \o acc.node,
                           render |-> Insert(acc.render, handle, offsets)])

\* variant: the offsets are read after the mesh has been appended
RECURSIVE RepackOffsetsLate(_, _, _)
RepackOffsetsLate(map, order, acc) ==
    IF order = <<>> THEN acc
    ELSE LET handle == Head(order)
             mesh == map[handle]
             grown == [vertex |-> acc.vertex \o mesh.vertices,
                       primitive |-> acc.primitive \o mesh.primitives,
                       node |-> acc.node \o mesh.nodes]
             offsets == GpuBindlessMesh(U32(Len(grown.vertex)), U32(Len(grown.primitive)),
                                        U32(Len(grown.node)))
         IN RepackOffsetsLate(map, Tail(order),
                              [vertex |-> grown.vertex, primitive |-> grown.primitive,
                               node |-> grown.node,
                               render |-> Insert(acc.render, handle, offsets)])

\* lines 282-313: the state of the three buffers and of the offset table after the
\* loop has visited the handles of order (ascending keys of the registry)
RECURSIVE Repack(_, _, _)
Repack(map, order, acc) ==
    IF order = <<>> THEN acc
    ELSE LET handle == Head(order)
             mesh == map[handle]
             offsets == GpuBindlessMesh(U32(Len(acc.vertex)), U32(Len(acc.primitive)),
                                        U32(Len(acc.node)))
         IN Repack(map, Tail(order),
                   [vertex |-> acc.vertex \o mesh.vertices,
                    primitive |-> acc.primitive \o mesh.primitives,
                    node |-> acc.node \o mesh.nodes,
                    render |-> Insert(acc.render, handle, offsets)])

\* variant: the three buffers are not cleared before the loop
NotCleared(render) ==
    [vertex |-> vertex_buffer, primitive |-> primitive_buffer, node |-> node_buffer,
     render |-> render]

\* lines 282-284: the three buffers are cleared, the offset table is not
Cleared(render) ==
    [vertex |-> <<>>, primitive |-> <<>>, node |-> <<>>, render |-> render]

\* lines 315-319: three write_buffer calls; `failing` is the call that fails
\* (1..3), or 0 when all succeed
WriteBuffers(dev, packed, failing) ==
    [vertex |-> IF failing = 0 \/ failing > 1 THEN packed.vertex ELSE dev.vertex,
     primitive |-> IF failing = 0 \/ failing > 2 THEN packed.primitive ELSE dev.primitive,
     node |-> IF failing = 0 THEN packed.node ELSE dev.node]

PrepareBindlessMeshes ==
    /\ phase = "Prepare"
    /\ LET inserted == InsertAll(meshes, extracted)
           registry == RemoveAll(inserted, removed)
           isDirty == Dirty(extracted, removed)
           packed == Repack(registry, SortedSeq(DOMAIN registry), Cleared(render_meshes))
       IN /\ meshes' = registry
          /\ extracted' = Drained(extracted)
          /\ removed' = Drained(removed)
          /\ dirty' = isDirty
          /\ IF isDirty
             THEN /\ vertex_buffer' = packed.vertex
                  /\ primitive_buffer' = packed.primitive
                  /\ node_buffer' = packed.node
                  /\ render_meshes' = packed.render
                  /\ \E failing \in 0..3 :
                       /\ device' = WriteBuffers(device, packed, failing)
                       /\ uploaded' = IF failing = 0 THEN 3 ELSE failing - 1
                       /\ phase' = IF failing = 0 THEN "Cleanup" ELSE "Failed"
             ELSE /\ UNCHANGED <<vertex_buffer, primitive_buffer, node_buffer,
                                 render_meshes, device>>
                  /\ uploaded' = 0
                  /\ phase' = "Cleanup"
    /\ UNCHANGED <<events, assets, changed_assets, diagnostics, harness>>

(***************************************************************************)
(* End of the frame: the event batch and the locals of the two systems are *)
(* gone; the resources stay for the next frame's Extract stage.            *)
(***************************************************************************)
EndFrame ==
    /\ phase = "Cleanup"
    /\ phase' = "Extract"
    /\ events' = <<>>
    /\ assets' = EmptyMap
    /\ changed_assets' = {}
    /\ dirty' = FALSE
    /\ uploaded' = 0
    /\ diagnostics' = {}
    /\ UNCHANGED <<extracted, removed, meshes, render_meshes, vertex_buffer,
                   primitive_buffer, node_buffer, device, harness>>

Next ==
    \/ ExtractBindlessMeshes /\ UNCHANGED history
    \/ PrepareBindlessMeshes /\ UNCHANGED history
    \/ EndFrame /\ UNCHANGED history

Spec == Init /\ [][Next]_vars

(***************************************************************************)
(* The same pipeline with the history of the registry kept: which mesh     *)
(* description each entry came from, and what remove() last evicted        *)
(***************************************************************************)
\* the insert loop (lines 271-274) and the remove loop (lines 276-279) of this
\* Prepare stage, as seen by the history
Remember ==
    LET inserted == {extracted[i].handle : i \in 1..Len(extracted)}
        afterInsert == InsertAll(meshes, extracted)
        originOf(h) == IF h \in inserted THEN assets[h].value ELSE origin[h]
        gone == Range(removed) \cap DOMAIN afterInsert
    IN /\ origin' = [h \in DOMAIN meshes' |-> originOf(h)]
       /\ evicted' = [h \in DOMAIN evicted \cup gone |->
                         IF h \in gone
                         THEN [description |-> originOf(h), entry |-> afterInsert[h]]
                         ELSE evicted[h]]

NextReadd ==
    \/ ExtractBindlessMeshes /\ UNCHANGED history
    \/ PrepareBindlessMeshes /\ Remember
    \/ EndFrame /\ UNCHANGED history

SpecReadd == Init /\ [][NextReadd]_vars

(***************************************************************************)
(* extract_mesh on its own: one call on a mesh description drawn from      *)
(* three families                                                          *)
(***************************************************************************)
Position(k) == <<k, (k * k) % 5, k % 2>>

\* a mesh of nv vertices with all three attributes
PlainMesh(nv, indices, topology) ==
    [positions |-> Float3([k \in 1..nv |-> Position(k)]),
     normals |-> Float3([k \in 1..nv |-> Normal]),
     uvs |-> Float2([k \in 1..nv |-> <<k % 2, 0>>]),
     indices |-> indices,
     topology |-> topology]

TriangleTopologies == {"TriangleList", "TriangleStrip"}
Topologies == TriangleTopologies \cup {"LineList", "PointList"}

IndexLists == UNION {[1..n -> 0..MaxIndex] : n \in 0..MaxIndices}

\* MaxIndex vertices under every index list, in range or not
IndexedMeshes ==
    {PlainMesh(MaxIndex, Some(ix), t) : ix \in IndexLists, t \in TriangleTopologies}

\* no index list
UnindexedMeshes == {PlainMesh(nv, None, t) : nv \in 0..MaxVerts, t \in Topologies}

\* an attribute is there, absent, or there with the other element type
AttributeStates(attr) ==
    {attr, None, IF attr.value.ty = "Float32x3" THEN Float2(attr.value.data)
                 ELSE Float3(attr.value.data)}

AttributeMeshes ==
    {[QuadMesh EXCEPT !.positions = p, !.normals = n, !.uvs = uv, !.topology = t] :
        p \in AttributeStates(QuadMesh.positions),
        n \in AttributeStates(QuadMesh.normals),
        uv \in AttributeStates(QuadMesh.uvs),
        t \in Topologies}

MeshInputs == IndexedMeshes \cup UnindexedMeshes \cup AttributeMeshes

InitExtract ==
    /\ PipelineInit
    /\ input \in MeshInputs
    /\ result = None
    /\ origin = EmptyMap
    /\ evicted = EmptyMap

ExtractMesh ==
    /\ ~result.some
    /\ result' = Some(extract_mesh(input))
    /\ UNCHANGED <<input, pipeline, history>>

NextExtract == ExtractMesh

SpecExtract == InitExtract /\ [][NextExtract]_vars

(***************************************************************************)
(* Vocabulary of the properties                                            *)
(***************************************************************************)
\* a prepare phase has ended and the next extract has not begun
PrepareEnded == phase \in {"Cleanup", "Extract"}

\* the keys of a map in ascending identity order
InIdentityOrder(map) ==
    CHOOSE s \in Perms(DOMAIN map) : \A i, j \in 1..Len(s) : i < j => s[i] < s[j]

\* the vertices / primitives / nodes arrays of all registry entries, one after another
Concatenation(field) ==
    LET order == InIdentityOrder(meshes)
    IN Flatten([i \in 1..Len(order) |-> meshes[order[i]][field]])

\* total length of the field arrays of the registry entries that precede h
CountBefore(h, field) ==
    LET before == SelectSeq(InIdentityOrder(meshes), LAMBDA g : g < h)
    IN SeqSum([i \in 1..Len(before) |-> Len(meshes[before[i]][field])])

ExtractedHandles == {extracted[i].handle : i \in 1..Len(extracted)}

IsChange(event, h) == event.handle = h /\ event.kind \in {"Created", "Modified"}

\* the batch holds a Removed(h) that comes after a Created(h) or Modified(h)
RemovedAfterChange(h) ==
    \E i, j \in 1..Len(events) : i < j /\ IsChange(events[i], h) /\ events[j] = Removed(h)

\* ... and no Created(h) or Modified(h) follows that Removed(h)
RemovedLastAfterChange(h) ==
    \E i, j \in 1..Len(events) :
        /\ i < j /\ IsChange(events[i], h) /\ events[j] = Removed(h)
        /\ \A k \in (j + 1)..Len(events) : ~IsChange(events[k], h)

\* extract_mesh was called for h in this tick and returned an error
ExtractionFailed(h) ==
    h \in changed_assets /\ assets[h].some /\ extract_mesh(assets[h].value).kind = "Err"

\* extract_mesh was called for h in this tick and returned a mesh
ExtractionSucceeded(h) ==
    h \in changed_assets /\ assets[h].some /\ extract_mesh(assets[h].value).kind = "Ok"

BuffersUnchanged ==
    /\ vertex_buffer' = vertex_buffer
    /\ primitive_buffer' = primitive_buffer
    /\ node_buffer' = node_buffer

(***************************************************************************)
(* C1: at the end of every prepare phase each of the three global buffers  *)
(* is the concatenation, in ascending identity order, of the corresponding *)
(* arrays of the meshes in the registry.                                   *)
(***************************************************************************)
BuffersAreConcatenation ==
    PrepareEnded =>
        /\ vertex_buffer = Concatenation("vertices")
        /\ primitive_buffer = Concatenation("primitives")
        /\ node_buffer = Concatenation("nodes")

\* two different meshes have just been packed
TwoMeshesPacked ==
    /\ phase = "Cleanup" /\ dirty
    /\ DOMAIN meshes = {1, 2}
    /\ meshes[1] # meshes[2]
    /\ Len(vertex_buffer) = Len(meshes[1].vertices) + Len(meshes[2].vertices)

(***************************************************************************)
(* C2: after every prepare phase the offsets of each mesh in the registry  *)
(* are the total vertex / primitive / node counts of the registry entries  *)
(* before it in identity order, and offset + own length stays within the   *)
(* global buffer.                                                          *)
(***************************************************************************)
OffsetsAreRunningTotals ==
    PrepareEnded =>
        \A h \in DOMAIN meshes :
            /\ h \in DOMAIN render_meshes
            /\ render_meshes[h].vertex_offset = CountBefore(h, "vertices")
            /\ render_meshes[h].primitive_offset = CountBefore(h, "primitives")
            /\ render_meshes[h].node_offset = CountBefore(h, "nodes")
            /\ render_meshes[h].vertex_offset + Len(meshes[h].vertices) <= Len(vertex_buffer)
            /\ render_meshes[h].primitive_offset + Len(meshes[h].primitives)
                   <= Len(primitive_buffer)
            /\ render_meshes[h].node_offset + Len(meshes[h].nodes) <= Len(node_buffer)

\* the quad (2 primitives) packed in front of a second mesh
SecondMeshBehindQuad ==
    /\ phase = "Cleanup" /\ dirty
    /\ DOMAIN meshes = {1, 2}
    /\ render_meshes[1] = GpuBindlessMesh(0, 0, 0)
    /\ render_meshes[2].primitive_offset = 2
    /\ render_meshes[2].vertex_offset = Len(meshes[1].vertices)
    /\ render_meshes[2].node_offset = Len(meshes[1].nodes)

(***************************************************************************)
(* C3: after a prepare phase that repacked, the identities that have an    *)
(* OffsetRecord are exactly the identities in the registry.                *)
(***************************************************************************)
OffsetTableMatchesRegistry ==
    (phase = "Cleanup" /\ dirty) => DOMAIN render_meshes = DOMAIN meshes

(***************************************************************************)
(* C4: the changed set and the removed set that the change tracker hands   *)
(* on for one tick are disjoint.                                           *)
(***************************************************************************)
ChangedRemovedDisjoint ==
    phase = "Prepare" => changed_assets \cap Range(removed) = {}

(***************************************************************************)
(* C5 as stated: a Removed(id) after a Created(id) or Modified(id) of the  *)
(* same batch leaves id out of the changed set and in the removed set; id  *)
(* is not extracted or inserted in the tick and is absent from the         *)
(* registry after the prepare phase.                                       *)
(***************************************************************************)
RemovalWinsAsStated ==
    \A h \in Handles :
        RemovedAfterChange(h) =>
            /\ phase = "Prepare" =>
                   /\ h \notin changed_assets
                   /\ h \in Range(removed)
                   /\ h \notin ExtractedHandles
            /\ phase = "Cleanup" => h \notin DOMAIN meshes

(***************************************************************************)
(* C5 amended: the same, for a Removed(id) that no Created(id) or          *)
(* Modified(id) follows in the batch.                                      *)
(***************************************************************************)
RemovalWins ==
    \A h \in Handles :
        RemovedLastAfterChange(h) =>
            /\ phase = "Prepare" =>
                   /\ h \notin changed_assets
                   /\ h \in Range(removed)
                   /\ h \notin ExtractedHandles
            /\ phase = "Cleanup" => h \notin DOMAIN meshes

\* a mesh that was in the registry is created again and removed in one batch, next to
\* another handle that is inserted
CreatedThenRemovedDone ==
    /\ phase = "Cleanup"
    /\ RemovedLastAfterChange(1)
    /\ 1 \notin DOMAIN meshes
    /\ 1 \in DOMAIN render_meshes
    /\ 2 \in DOMAIN meshes

(***************************************************************************)
(* C6: in every tick dirty is set when the registry had an insertion or a  *)
(* removal, and it is not set when the batch is empty.                     *)
(***************************************************************************)
DirtyWhenRegistryTouched ==
    [][phase = "Prepare" =>
          /\ (extracted # <<>> \/ removed # <<>> \/ meshes' # meshes) => dirty'
          /\ events = <<>> => ~dirty']_vars

\* a tick whose only effect was the removal of a registered mesh
DirtyAfterRemoval ==
    /\ phase = "Cleanup" /\ dirty
    /\ changed_assets = {}
    /\ events # <<>>
    /\ 1 \in DOMAIN render_meshes /\ 1 \notin DOMAIN meshes

(***************************************************************************)
(* C7: a tick that is not dirty uploads nothing and leaves the three       *)
(* global buffers, the offset table and the registry as they were.         *)
(***************************************************************************)
CleanTickChangesNothing ==
    [][(phase = "Prepare" /\ ~dirty') =>
          /\ uploaded' = 0
          /\ device' = device
          /\ BuffersUnchanged
          /\ render_meshes' = render_meshes
          /\ meshes' = meshes]_vars

\* a tick with events but nothing to insert or evict, over a registry that holds meshes
CleanTickOverMeshes ==
    /\ phase = "Cleanup" /\ ~dirty
    /\ events # <<>>
    /\ DOMAIN meshes = {1, 2}
    /\ uploaded = 0

(***************************************************************************)
(* C8: when extraction fails for an identity of the batch, that identity   *)
(* is neither inserted nor updated (what the registry held for it stays),  *)
(* while every other changed identity whose extraction succeeds is         *)
(* inserted, and the buffers are repacked for them.                        *)
(***************************************************************************)
FailureSkipsOnlyThatMesh ==
    [][(phase = "Prepare" /\ \E f \in changed_assets : ExtractionFailed(f)) =>
          \A h \in changed_assets :
              /\ ExtractionFailed(h) =>
                     /\ (h \in DOMAIN meshes') = (h \in DOMAIN meshes)
                     /\ h \in DOMAIN meshes => meshes'[h] = meshes[h]
              /\ ExtractionSucceeded(h) =>
                     /\ h \in DOMAIN meshes'
                     /\ meshes'[h] = extract_mesh(assets[h].value).mesh
                     /\ dirty'
                     /\ vertex_buffer' = Concatenation("vertices")'
                     /\ primitive_buffer' = Concatenation("primitives")'
                     /\ node_buffer' = Concatenation("nodes")']_vars

(***************************************************************************)
(* C9: a tick whose batch is one Created or Modified event for a mesh that *)
(* lacks only its normals fails extraction with MissAttributeNormal and    *)
(* leaves the registry and the three global buffers unchanged.             *)
(***************************************************************************)
LacksOnlyNormals(asset) ==
    /\ asset.some
    /\ as_float3(asset.value.positions).some
    /\ ~as_float3(asset.value.normals).some
    /\ as_float2(asset.value.uvs).some

OnlyEventLacksNormals ==
    /\ Len(events) = 1
    /\ events[1].kind \in {"Created", "Modified"}
    /\ LacksOnlyNormals(assets[events[1].handle])

MissingNormalsChangeNothing ==
    [][(phase = "Prepare" /\ OnlyEventLacksNormals) =>
          /\ TryExtract(assets[events[1].handle]) =
                 [kind |-> "Err", err |-> "MissAttributeNormal"]
          /\ extracted = <<>>
          /\ meshes' = meshes
          /\ BuffersUnchanged]_vars

\* a registered mesh was modified into one without normals; the old entry is still there
MissingNormalsTickDone ==
    /\ phase = "Cleanup"
    /\ OnlyEventLacksNormals
    /\ events[1] = Modified(1)
    /\ 1 \in DOMAIN meshes
    /\ vertex_buffer # <<>>

(***************************************************************************)
(* C10: when the device upload of a dirty tick fails, the three global     *)
(* buffers hold what they held before the tick.                            *)
(***************************************************************************)
FailedUploadKeepsBuffers ==
    [][(phase = "Prepare" /\ phase' = "Failed") => BuffersUnchanged]_vars

(***************************************************************************)
(* C11: every mesh skipped because its extraction failed has its error     *)
(* kind reported (to the caller or the log) in the tick that skips it.     *)
(***************************************************************************)
SkippedMeshesReported ==
    phase = "Prepare" =>
        \A h \in Handles :
            ExtractionFailed(h) =>
                \E d \in diagnostics :
                    d.handle = h /\ d.err = extract_mesh(assets[h].value).err

(***************************************************************************)
(* Vocabulary of the properties of extract_mesh                            *)
(***************************************************************************)
HasFloat3(attr) == attr.some /\ attr.value.ty = "Float32x3"
HasFloat2(attr) == attr.some /\ attr.value.ty = "Float32x2"

\* the mesh has its three required attributes, each of the required element type
HasAttributes(m) == HasFloat3(m.positions) /\ HasFloat3(m.normals) /\ HasFloat2(m.uvs)

VertexCount(m) ==
    Min2(Len(m.positions.value.data),
         Min2(Len(m.normals.value.data), Len(m.uvs.value.data)))

IdentityIndices(n) == [i \in 1..n |-> i - 1]

\* the index list extraction works from
IndexListOf(m) ==
    IF m.indices.some THEN m.indices.value ELSE IdentityIndices(VertexCount(m))

\* every index names a vertex of the mesh
IndicesValid(m) ==
    \A i \in 1..Len(IndexListOf(m)) : IndexListOf(m)[i] \in 0..(VertexCount(m) - 1)

\* indices carried by the primitives of a compiled mesh, in order
PrimitiveIndices(compiled) ==
    [i \in 1..Len(compiled.primitives) |-> compiled.primitives[i].indices]

\* consecutive non-overlapping groups of three
GroupsOfThree(idx) ==
    [k \in 1..(Len(idx) \div 3) |-> <<idx[3 * k - 2], idx[3 * k - 1], idx[3 * k]>>]

\* overlapping windows of three, the windows at odd positions (from 0) with
\* their first two indices swapped
AlternatingWindows(idx) ==
    [k \in 1..(Len(idx) - 2) |->
        IF (k - 1) % 2 = 0 THEN <<idx[k], idx[k + 1], idx[k + 2]>>
        ELSE <<idx[k + 1], idx[k], idx[k + 2]>>]

TopologyError == [kind |-> "Err", err |-> "IncompatiblePrimitiveTopology"]

(***************************************************************************)
(* C12: in every compiled mesh held in the registry, each of the three     *)
(* indices of each primitive is smaller than that mesh's own vertex count. *)
(***************************************************************************)
LocalIndicesInRange ==
    \A h \in DOMAIN meshes :
        \A i \in 1..Len(meshes[h].primitives) :
            \A k \in 1..3 :
                meshes[h].primitives[i].indices[k] \in 0..(Len(meshes[h].vertices) - 1)

\* the registry holds the quad, whose largest index is its last vertex, next to
\* another mesh that shifts the quad's place in the global buffer
QuadRegisteredBehindStrip ==
    /\ phase = "Cleanup"
    /\ DOMAIN meshes = {1, 2}
    /\ Len(meshes[2].vertices) = 4
    /\ render_meshes[2].vertex_offset = 3
    /\ \E i \in 1..Len(meshes[2].primitives) : meshes[2].primitives[i].indices[3] = 3

TrailingIndexRefused ==
    /\ result.some
    /\ input.topology = "TriangleList"
    /\ input.indices = Some(<<0, 1, 2, 0>>)
    /\ result.value = TopologyError

DefaultIndicesAreIdentity ==
    (/\ result.some
     /\ ~input.indices.some
     /\ HasAttributes(input)
     /\ VertexCount(input) >= 3) =>
        LET n == VertexCount(input)
        IN /\ (input.topology = "TriangleList" /\ n % 3 = 0) =>
                  /\ result.value.kind = "Ok"
                  /\ PrimitiveIndices(result.value.mesh) =
                         [k \in 1..(n \div 3) |-> <<3 * k - 3, 3 * k - 2, 3 * k - 1>>]
           /\ (input.topology = "TriangleList" /\ n % 3 # 0) =>
                  result.value = TopologyError
           /\ input.topology = "TriangleStrip" =>
                  /\ result.value.kind = "Ok"
                  /\ PrimitiveIndices(result.value.mesh) =
                         AlternatingWindows(IdentityIndices(n))

\* six vertices without indices have been extracted as two triangles
SixVerticesExtracted ==
    /\ result.some
    /\ ~input.indices.some
    /\ input.topology = "TriangleList"
    /\ VertexCount(input) = 6
    /\ result.value.kind = "Ok"
    /\ PrimitiveIndices(result.value.mesh) = << <<0, 1, 2>>, <<3, 4, 5>> >>

RepackIdempotent ==
    [][(phase = "Prepare" /\ dirty' /\ meshes' = meshes) =>
          (BuffersUnchanged /\ render_meshes' = render_meshes)]_vars

\* a tick that only removed an identity never registered has repacked the
\* registry of one mesh a second time
RepackedUnchangedRegistry ==
    /\ phase = "Cleanup"
    /\ dirty
    /\ events = <<Removed(2)>>
    /\ DOMAIN meshes = {1}
    /\ DOMAIN render_meshes = {1}
    /\ vertex_buffer = meshes[1].vertices

(***************************************************************************)
(* C17: after a tick in which Modified(id) extracts successfully, the      *)
(* registry holds one entry for id, equal to the newly extracted mesh, and *)
(* the repacked buffers are made of the registry's entries alone.          *)
(***************************************************************************)
ModifiedReplacesEntry ==
    [][phase = "Prepare" =>
          \A h \in Handles :
              (ExtractionSucceeded(h) /\ Modified(h) \in Range(events)) =>
                  /\ h \in DOMAIN meshes'
                  /\ meshes'[h] = extract_mesh(assets[h].value).mesh
                  /\ vertex_buffer' = Concatenation("vertices")'
                  /\ primitive_buffer' = Concatenation("primitives")'
                  /\ node_buffer' = Concatenation("nodes")']_vars

(***************************************************************************)
(* C18: a tick whose batch is only Removed(id), for an id that has no      *)
(* registry entry, leaves the registry's entries and their contents        *)
(* unchanged.                                                              *)
(***************************************************************************)
RemoveAbsentIsNoOp ==
    [][(/\ phase = "Prepare"
        /\ Len(events) = 1
        /\ events[1].kind = "Removed"
        /\ events[1].handle \notin DOMAIN meshes) => meshes' = meshes]_vars

\* identity 1, never registered, has been removed from a registry holding 2
AbsentRemovedBesideEntry ==
    /\ phase = "Cleanup"
    /\ events = <<Removed(1)>>
    /\ DOMAIN render_meshes = {2}
    /\ DOMAIN meshes = {2}

(***************************************************************************)
(* C19: however many Created and Modified events a batch holds for one     *)
(* identity, that identity is extracted and inserted at most once in the   *)
(* tick.                                                                   *)
(***************************************************************************)
ExtractedAtMostOnce ==
    \A h \in Handles :
        Cardinality({i \in 1..Len(extracted) : extracted[i].handle = h}) <= 1

\* three change events for one identity have led to one extracted mesh
ThreeEventsOneExtraction ==
    /\ phase = "Prepare"
    /\ events = <<Created(1), Modified(1), Created(1)>>
    /\ Len(extracted) = 1
    /\ extracted[1].handle = 1

(***************************************************************************)
(* C21: extraction fails with the position, normal or UV attribute error   *)
(* when that attribute is absent or of the wrong element type; of several  *)
(* missing attributes the first in the order position, normal, UV is       *)
(* reported, whatever the topology of the mesh.                            *)
(***************************************************************************)
AttributeErrorsInOrder ==
    result.some =>
        /\ ~HasFloat3(input.positions) =>
               result.value = [kind |-> "Err", err |-> "MissAttributePosition"]
        /\ (HasFloat3(input.positions) /\ ~HasFloat3(input.normals)) =>
               result.value = [kind |-> "Err", err |-> "MissAttributeNormal"]
        /\ (HasFloat3(input.positions) /\ HasFloat3(input.normals)
               /\ ~HasFloat2(input.uvs)) =>
               result.value = [kind |-> "Err", err |-> "MissAttributeUV"]

\* a point list whose normals have two components and whose UVs are absent has
\* been refused for its normals
WrongNormalsBeforeMissingUV ==
    /\ result.some
    /\ input.topology = "PointList"
    /\ HasFloat3(input.positions)
    /\ input.normals.some /\ input.normals.value.ty = "Float32x2"
    /\ ~input.uvs.some
    /\ result.value = [kind |-> "Err", err |-> "MissAttributeNormal"]

(***************************************************************************)
(* C22: a mesh with all required attributes whose topology is neither      *)
(* triangle list nor triangle strip fails extraction with                  *)
(* IncompatiblePrimitiveTopology and contributes nothing to the registry.  *)
(***************************************************************************)
OtherTopologyRefused ==
    [][phase = "Prepare" =>
          \A h \in changed_assets :
              (/\ assets[h].some
               /\ HasAttributes(assets[h].value)
               /\ assets[h].value.topology \notin {"TriangleList", "TriangleStrip"}) =>
                  /\ TryExtract(assets[h]) = TopologyError
                  /\ h \notin ExtractedHandles
                  /\ h \in DOMAIN meshes' =>
                        (h \in DOMAIN meshes /\ meshes'[h] = meshes[h])]_vars

\* the registered strip was modified into a line list next to a newly created
\* quad; the tick is over and the strip's entry is as it was
LineListTickDone ==
    /\ phase = "Cleanup"
    /\ events = <<Modified(1), Created(2)>>
    /\ assets[1] = Some(LineMesh)
    /\ assets[2] = Some(QuadMesh)
    /\ DOMAIN meshes = {1, 2}
    /\ Len(meshes[1].vertices) = 3
    /\ dirty

(***************************************************************************)
(* Vocabulary of the properties of the flattened node array                *)
(***************************************************************************)
\* box a contains box b
Contains(a, b) == \A k \in 1..3 : a.min[k] <= b.min[k] /\ b.max[k] <= a.max[k]

IsLeaf(node) == node.face_index # U32Max

\* positions (from 1) of the nodes below the internal node at position s: the
\* slots entry_index .. exit_index - 1
Below(nodes, s) == (nodes[s].entry_index + 1)..nodes[s].exit_index

InternalBoxesContainChildren(compiled) ==
    \A s \in 1..Len(compiled.nodes) :
        ~IsLeaf(compiled.nodes[s]) =>
            \A c \in Below(compiled.nodes, s) :
                Contains(compiled.nodes[s], compiled.nodes[c])

LeafBoxesContainPrimitives(compiled) ==
    \A s \in 1..Len(compiled.nodes) :
        IsLeaf(compiled.nodes[s]) =>
            Contains(compiled.nodes[s],
                     aabb(compiled.primitives[compiled.nodes[s].face_index + 1]))

(***************************************************************************)
(* C23: in the flattened node array of every compiled mesh, the box of     *)
(* every internal node contains the boxes of its children, and the box of  *)
(* every leaf contains the bounding boxes of the primitives of its         *)
(* face_index run.                                                         *)
(***************************************************************************)
NodeBoxesContain ==
    (result.some /\ result.value.kind = "Ok") =>
        /\ InternalBoxesContainChildren(result.value.mesh)
        /\ LeafBoxesContainPrimitives(result.value.mesh)

(***************************************************************************)
(* C24: in every compiled mesh, each primitive's node_index is the slot,   *)
(* in that mesh's flattened node array, of a leaf whose face_index run     *)
(* includes that primitive.                                                *)
(***************************************************************************)
NodeIndexIsLeafSlot ==
    (result.some /\ result.value.kind = "Ok") =>
        LET compiled == result.value.mesh
        IN \A i \in 1..Len(compiled.primitives) :
               LET slot == compiled.primitives[i].node_index
               IN /\ slot \in 0..(Len(compiled.nodes) - 1)
                  /\ IsLeaf(compiled.nodes[slot + 1])
                  /\ compiled.nodes[slot + 1].face_index = i - 1

(***************************************************************************)
(* C25: the extract phase leaves the registry, the three global buffers    *)
(* and the offset table unchanged and only produces the tick's change      *)
(* batch; the prepare phase drains the pending extracted and removed lists,*)
(* and they are empty when the next extract phase produces its batch.      *)
(***************************************************************************)
OnlyPrepareMutates ==
    [][/\ phase = "Extract" =>
             /\ meshes' = meshes
             /\ render_meshes' = render_meshes
             /\ BuffersUnchanged
             /\ device' = device
             /\ extracted = <<>> /\ removed = <<>>
       /\ phase = "Prepare" => (extracted' = <<>> /\ removed' = <<>>)
       /\ phase = "Cleanup" => UNCHANGED <<meshes, render_meshes, vertex_buffer,
                                           primitive_buffer, node_buffer, device,
                                           extracted, removed>>]_vars

\* an extract phase has produced a batch over a registry that holds a mesh
BatchOverRegisteredMesh ==
    /\ phase = "Prepare"
    /\ DOMAIN meshes = {1}
    /\ vertex_buffer = meshes[1].vertices
    /\ removed = <<1>>
    /\ Len(extracted) = 1
    /\ extracted[1].handle = 2

(***************************************************************************)
(* C26: when a Removed(id) event of a batch is followed by a later         *)
(* Created(id) or Modified(id) event whose mesh extracts successfully, id  *)
(* is in the registry after that tick's prepare phase, with the freshly    *)
(* extracted mesh.                                                         *)
(***************************************************************************)
LastEventDecidesPresence ==
    [][phase = "Prepare" =>
          \A h \in Handles :
              (/\ \E i, j \in 1..Len(events) :
                      i < j /\ events[i] = Removed(h) /\ IsChange(events[j], h)
               /\ ExtractionSucceeded(h)) =>
                  /\ h \in DOMAIN meshes'
                  /\ meshes'[h] = extract_mesh(assets[h].value).mesh]_vars

(***************************************************************************)
(* C27: for every mesh description with all three required attributes,     *)
(* one with an index at or past the vertex count included, extraction ends *)
(* with a compiled mesh or with one of the four error kinds, and does not  *)
(* abort the tick.  Stated for meshes with at least three indices.         *)
(***************************************************************************)
ExtractionNeverAborts ==
    (/\ result.some
     /\ HasAttributes(input)
     /\ Len(IndexListOf(input)) >= 3) =>
        \/ result.value.kind = "Ok"
        \/ /\ result.value.kind = "Err"
           /\ result.value.err \in {"MissAttributePosition", "MissAttributeNormal",
                                     "MissAttributeUV", "IncompatiblePrimitiveTopology"}

(***************************************************************************)
(* C28: a tick repacks the buffers and uploads to the device only if the   *)
(* content of the registry changed in that tick.                           *)
(***************************************************************************)
RepackOnlyOnChange ==
    [][(phase = "Prepare" /\ (dirty' \/ uploaded' > 0 \/ device' # device)) =>
          meshes' # meshes]_vars

====
